---- MODULE Spec2Model ----
(***************************************************************************)
(* Model of the Pomodoro timer engine of tomato_clock (core.py, config.py). *)
(*                                                                         *)
(* Two threads share the TimerState held in PomodoroTimer._state: the      *)
(* timer thread, which runs start() / _run_phase(), and the controller     *)
(* thread (UI thread), which calls pause(), resume(), stop() and           *)
(* skip_phase().  The signal handler may run at any moment.  No lock       *)
(* protects _state, so the timer thread is modelled statement by           *)
(* statement and resume(), the only control call that reads and writes     *)
(* several fields, in three steps.                                         *)
(*                                                                         *)
(* Clock values are integers counting 1/TicksPerSecond of a second;        *)
(* durations in minutes are integers counting 1/100 of a minute.           *)
(*                                                                         *)
(* Spec has the controller and the signal handler, QuietSpec the timer     *)
(* thread and the clock alone, RegisterSpec the add_callback calls,        *)
(* DispatchSpec runs with registered callbacks that may raise, and         *)
(* ConstructSpec starts at the call of PomodoroConfig(...).  ShortSpec is  *)
(* Spec with phase-runs of exactly 2 s, EndlessSpec has no cycle limit,    *)
(* LiveSpec states the fairness under which start() returns, LegacySpec    *)
(* is the timer loop of overlay_original.py and OverlaySpec the timer      *)
(* thread with the callbacks and the Tk thread of overlay_ui.py, to which  *)
(* ButtonsSpec adds the pause and skip buttons.  PausedSpec measures the   *)
(* un-paused time of the phase-runs under pause() and resume(), and        *)
(* ZeroSpec constructs and runs configurations with a cycle limit or a     *)
(* pre-rest warning of 0.                                                  *)
(***************************************************************************)
EXTENDS Integers, Sequences, FiniteSets, TLC

\* ------------------------------------------------------------------ bounds
\* clock resolution: clock units per second
TicksPerSecond == 2
\* the clock stops advancing after this many clock units
MaxTime == 8
\* the same for the runs without control calls
QuietMaxTime == 18
\* phase-runs are not started beyond this cycle number (unbounded runs)
MaxCycle == 2

\* control calls (pause, resume, stop, skip_phase, signals) made in one run
MaxCalls == 2
\* add_callback calls made before start()
MaxCallbacks == 3

\* ------------------------------------------------------- configurations
\* PomodoroConfig(work_minutes, rest_minutes, cycles, tick, pre_rest_warning):
\* minutes in hundredths of a minute, tick and pre_rest_warning in seconds;
\* cycles is <<>> for None and <<n>> for the integer n
PomodoroConfig(w, r, c, t, p) ==
    [work_minutes |-> w, rest_minutes |-> r, cycles |-> c, tick |-> t,
     pre_rest_warning |-> p]

\* PomodoroConfig.from_terminal_args: --no-loop gives cycles = 1, else None
FromTerminalArgs(work, rest, no_loop, tick, pre_rest) ==
    PomodoroConfig(work, rest, IF no_loop THEN <<1>> ELSE <<>>, tick, pre_rest)

\* a 3 s phase is polled, a 1 s phase takes the short path
Durations == {2, 5}
\* the last one has work = rest = 0.01 min: phases of 0 s
Configs ==
    {PomodoroConfig(5, 2, <<2>>, 1, 1), PomodoroConfig(2, 5, <<2>>, 1, 1),
     PomodoroConfig(1, 1, <<2>>, 1, 1)}
QuietConfigs ==
    {FromTerminalArgs(w, r, nl, 1, 1) : w \in Durations, r \in Durations,
                                        nl \in BOOLEAN}
    \cup {PomodoroConfig(w, r, <<2>>, 1, 1) : w \in Durations, r \in Durations}

\* the arguments of a PomodoroConfig(...) call: the fields validate()
\* reads; alpha and scale in hundredths
RawArgs ==
    [work_minutes : {-2, 0, 1}, rest_minutes : {-2, 0, 5}, cycles : {<<2>>},
     tick : {1}, pre_rest_warning : {-1, 0, 1}, alpha : {95, 150},
     scale : {0, 100}]

\* the arguments a configuration was built from, alpha and scale at their
\* defaults
ArgsOf(c) ==
    [work_minutes |-> c.work_minutes, rest_minutes |-> c.rest_minutes,
     cycles |-> c.cycles, tick |-> c.tick,
     pre_rest_warning |-> c.pre_rest_warning, alpha |-> 95, scale |-> 100]

\* validate() without the check of rest_minutes
ValidateRaises_no_rest(a) ==
    \/ a.work_minutes <= 0
    \/ ~(0 <= a.alpha /\ a.alpha <= 100)
    \/ a.scale <= 0
    \/ a.pre_rest_warning < 0

\* validate() raises ValueError.  Its clamp of tick to 0.05 s never applies
\* to a tick of whole seconds.
ValidateRaises(a) ==
    \/ a.work_minutes <= 0
    \/ a.rest_minutes <= 0
    \/ ~(0 <= a.alpha /\ a.alpha <= 100)
    \/ a.scale <= 0
    \/ a.pre_rest_warning < 0

\* no configuration object exists
NoConfig == PomodoroConfig(0, 0, <<>>, 0, 0)

\* the configuration of the runs with registered callbacks: 0.01 min of
\* work (0 s, the short path) and a polled rest, so that a run dispatches
\* every event
DispatchConfigs == {PomodoroConfig(1, 5, <<2>>, 1, 1)}

VARIABLES
    cfg,              \* PomodoroConfig (read-only after construction)
    horizon,          \* the clock value at which the clock stops
    now,              \* time.time()
    pc,               \* position of the timer thread in start()/_run_phase()
    state_set,        \* self._state is not None
    state,            \* self._state (TimerState), meaningful when state_set
    phase,            \* _run_phase argument
    cycle,            \* local of start()
    total_seconds,    \* local of _run_phase
    pre_warning_sent, \* local of _run_phase
    last_tick_time,   \* local of _run_phase
    current_time,     \* local of _run_phase
    elapsed,          \* local of _run_phase
    wake,             \* end of time.sleep(total_seconds) on the short path
    rpc,              \* position of the controller thread inside resume()
    r_time,           \* resume(): current_time
    r_elapsed,        \* resume(): elapsed_before_pause
    r_seen,           \* resume(): <<total_seconds, remaining_seconds>> read
                      \* at line 199
    events,           \* every dispatch made by _trigger_callbacks, in order
    stop_done,        \* stop() or the signal handler has set is_running
                      \* to false during this run of start()
    stop_in_run,      \* stop() hit the current phase-run between its
                      \* phase_start and its phase_end
    skip_in_run,      \* skip_phase() hit the current phase-run's polling loop
    pause_held,       \* pause() has returned and neither resume() nor
                      \* skip_phase() was called since, in this phase-run
    start_shifted,    \* resume() moved start_time forward in this phase-run
    ended_paused,     \* is_paused was set on the previous TimerState when
                      \* the current one replaced it
    limit_break,      \* start() left its loop by the break of line 107,
                      \* the cycle limit reached
    calls,            \* number of control calls made so far
    args,             \* the arguments PomodoroConfig(...) was called with
    callbacks,        \* self._callbacks: event name -> callbacks in
                      \* registration order, a callback being its number
    add_log,          \* the add_callback calls made: event name, and
                      \* whether the call raised ValueError
    invoked,          \* the callback invocations of the latest dispatch, in
                      \* order, each with whether the callback raised
    raise_seen,       \* a callback has raised in this run of start()
    tick_read,        \* the clock reading of the loop iteration that
                      \* dispatched the latest tick of the phase-run, the
                      \* reading of line 150 before the first tick
    since_tick,       \* the time since that tick was dispatched (since line
                      \* 150 before the first), counted up to config.tick
    unpaused,         \* <<n>>: n clock steps have passed since the current
                      \* TimerState was created while no pause() that had
                      \* returned was awaiting its resume(); <<>> in the
                      \* runs that do not measure it
    legacy,           \* the PomodoroOverlay object of overlay_original.py:
                      \* its fields, the position of its timer thread and
                      \* the phases it has begun
    ui                \* the overlay front-end of overlay_ui.py: its own
                      \* pre_notice_sent, its pending display updates and
                      \* the notifications sent

vars == <<cfg, horizon, now, pc, state_set, state, phase, cycle, total_seconds,
          pre_warning_sent, last_tick_time, current_time, elapsed, wake,
          rpc, r_time, r_elapsed, r_seen, events, stop_done, stop_in_run,
          skip_in_run, pause_held, start_shifted, ended_paused,
          limit_break,
          calls, args, callbacks,
          add_log, invoked, raise_seen, tick_read, since_tick, unpaused,
          legacy, ui>>

\* the front-ends' own state, which no method of PomodoroTimer touches
front_ends == <<legacy, ui>>
\* what is fixed once start() is called
setup == <<cfg, horizon, args, callbacks, add_log, front_ends>>
\* what a dispatch writes
dispatch_log == <<events, invoked, raise_seen>>

timer_locals == <<total_seconds, pre_warning_sent, last_tick_time,
                  current_time, elapsed, wake>>
resume_vars == <<rpc, r_time, r_elapsed, r_seen>>
history == <<stop_done, stop_in_run, skip_in_run, pause_held, start_shifted,
            ended_paused, limit_break>>
tick_history == <<tick_read, since_tick, unpaused>>
all_history == <<history, calls, tick_history>>

\* ------------------------------------------------------------- helpers
Max(a, b) == IF a >= b THEN a ELSE b

\* int(x) of a float number of seconds: truncation toward zero
PyInt(x) == IF x >= 0 THEN x \div TicksPerSecond
                      ELSE -((-x) \div TicksPerSecond)

\* round(duration_minutes * 60) in place of int()
DurationSeconds_rounded(centi_minutes) == (centi_minutes * 60 + 50) \div 100

\* int(duration_minutes * 60)
DurationSeconds(centi_minutes) == (centi_minutes * 60) \div 100

\* a limit of 0 taken for a limit: only None is false
CyclesTruthy_zero_is_limit == cfg.cycles # <<>>

\* truthiness of config.cycles: None and 0 are false
CyclesTruthy == cfg.cycles # <<>> /\ cfg.cycles[1] # 0

\* the limit test off by one: one cycle fewer than configured
LimitReached_early(c) == CyclesTruthy /\ c + 1 >= cfg.cycles[1]

\* the limit test off by one: one more cycle than configured
LimitReached_late(c) == CyclesTruthy /\ c > cfg.cycles[1]

\* an absent limit read as a limit of one cycle
LimitReached_absent_is_one(c) ==
    IF cfg.cycles = <<>> THEN c >= 1 ELSE c >= cfg.cycles[1]

\* `self.config.cycles and cycle >= self.config.cycles`
LimitReached(c) == CyclesTruthy /\ c >= cfg.cycles[1]

\* line 156 never counting down
Remaining_frozen(total, el) == total

\* max(0, total_seconds - int(elapsed))
Remaining(total, el) == Max(0, total - PyInt(el))

\* resume() restarting the phase clock: start_time = current_time
ResumeStart_restart(t, elapsed_before_pause) == t

\* current_time - elapsed_before_pause
ResumeStart(t, elapsed_before_pause) == t - elapsed_before_pause * TicksPerSecond

\* TimerState(phase=..., cycle=..., remaining_seconds=total, ...)
TimerState(p, c, total, t) ==
    [phase |-> p, cycle |-> c, remaining_seconds |-> total,
     total_seconds |-> total, is_running |-> TRUE, is_paused |-> FALSE,
     start_time |-> t]

NoState == [phase |-> "WORK", cycle |-> 0, remaining_seconds |-> 0,
            total_seconds |-> 0, is_running |-> FALSE, is_paused |-> FALSE,
            start_time |-> 0]

\* a dispatch that passes no TimerState
Event_absent(name) == [name |-> name, phase |-> NoState.phase,
                       cycle |-> NoState.cycle]

\* what a dispatch passes to the callbacks: self._state, read at the call
Event(name) == [name |-> name, phase |-> state.phase, cycle |-> state.cycle]

\* _trigger_callbacks(event): dispatches only when _state is set
TriggerCallbacks(name) ==
    IF state_set THEN Append(events, Event(name)) ELSE events

\* no PomodoroOverlay of overlay_original.py constructed yet
NoOverlay == [pc |-> "new"]

\* no overlay front-end of overlay_ui.py constructed yet
NoUi == [pc |-> "new"]

\* self._callbacks as __init__ builds it
NewCallbacks ==
    [e \in {"tick", "phase_start", "phase_end", "timer_complete",
            "pre_rest_warning"} |-> <<>>]

\* the event names add_callback is called with: the keys and a name the
\* engine does not know
RegisterNames == DOMAIN NewCallbacks \cup {"pause"}

\* the events callbacks are registered for before a run: one dispatched by
\* the polling loop, one by start()
DispatchNames == {"tick", "timer_complete"}

\* the callbacks of an event invoked last registered first
Outcomes_reversed(name) ==
    LET cbs == callbacks[name]
    IN {[i \in 1..Len(cbs) |-> [id |-> cbs[Len(cbs) + 1 - i], raised |-> f[i]]] :
           f \in [1..Len(cbs) -> BOOLEAN]}

\* every outcome of invoking the callbacks of an event in turn, each
\* returning or raising an Exception
Outcomes(name) ==
    LET cbs == callbacks[name]
    IN {[i \in 1..Len(cbs) |-> [id |-> cbs[i], raised |-> f[i]]] :
           f \in [1..Len(cbs) -> BOOLEAN]}

\* the loop left at the first callback that raises
InvokeCallbacks_abort(name) ==
    LET cut(s) ==
          IF \E i \in DOMAIN s : s[i].raised
            THEN SubSeq(s, 1, CHOOSE i \in DOMAIN s :
                                 /\ s[i].raised
                                 /\ \A j \in 1..(i - 1) : ~s[j].raised)
            ELSE s
    IN {cut(s) : s \in Outcomes(name)}

\* `for callback in self._callbacks[event]: try: callback(self._state)
\* except Exception: logger.error(...)`: the loop goes on after a raise
InvokeCallbacks(name) == Outcomes(name)

\* _trigger_callbacks(event) as an action
Dispatch(name) ==
    /\ events' = TriggerCallbacks(name)
    /\ IF state_set /\ name \in DOMAIN callbacks
         THEN /\ invoked' \in InvokeCallbacks(name)
              /\ raise_seen' = (raise_seen \/ \E i \in DOMAIN invoked' :
                                                 invoked'[i].raised)
         ELSE UNCHANGED <<invoked, raise_seen>>

\* positions of the timer thread inside the polling loop
LoopPcs == {"loop_check", "poll_paused", "poll_time", "poll_elapsed",
            "poll_write", "warn_check", "warn_fire", "tick_check", "sleep"}

\* positions after phase_start was dispatched and before phase_end is
InRunPcs == LoopPcs \cup {"loop_init", "short_sleep", "short_end",
                          "end_check", "end_fire"}

\* ------------------------------------------------------------------ Init
\* a PomodoroTimer just constructed, or about to be
InitRun(h) ==
    /\ horizon = h
    /\ now = 0
    /\ state_set = FALSE
    /\ state = NoState
    /\ phase = "WORK"
    /\ cycle = 0
    /\ total_seconds = 0
    /\ pre_warning_sent = FALSE
    /\ last_tick_time = 0
    /\ current_time = 0
    /\ elapsed = 0
    /\ wake = 0
    /\ rpc = "r_idle"
    /\ r_time = 0
    /\ r_elapsed = 0
    /\ r_seen = <<>>
    /\ events = <<>>
    /\ stop_done = FALSE
    /\ stop_in_run = FALSE
    /\ skip_in_run = FALSE
    /\ pause_held = FALSE
    /\ start_shifted = FALSE
    /\ ended_paused = FALSE
    /\ limit_break = FALSE
    /\ calls = 0
    /\ callbacks = NewCallbacks
    /\ add_log = <<>>
    /\ invoked = <<>>
    /\ raise_seen = FALSE
    /\ tick_read = 0
    /\ since_tick = 0
    /\ legacy = NoOverlay
    /\ ui = NoUi

\* a timer constructed from one of the configurations, start() not yet called
InitWith(configs, h) ==
    /\ cfg \in configs
    /\ args = ArgsOf(cfg)
    /\ pc = "idle"
    /\ InitRun(h)
    /\ unpaused = <<>>

Init == InitWith(Configs, MaxTime)

\* runs in which the controller thread never calls and no signal arrives
QuietInit == InitWith(QuietConfigs, QuietMaxTime)

\* PomodoroConfig(...) is about to be called
ConstructInit ==
    /\ args \in RawArgs
    /\ cfg = NoConfig
    /\ pc = "construct"
    /\ InitRun(MaxTime)
    /\ unpaused = <<>>

\* callbacks are registered before start() is called
DispatchInit == InitWith(DispatchConfigs, MaxTime)

\* ------------------------------------------------------ construction
\* PomodoroConfig(...): __post_init__ calls validate(), whose ValueError
\* leaves the caller without a configuration, hence without a timer
Construct ==
    /\ pc = "construct"
    /\ IF ValidateRaises(args)
         THEN /\ pc' = "config_error"
              /\ cfg' = cfg
         ELSE /\ pc' = "idle"
              /\ cfg' = PomodoroConfig(args.work_minutes, args.rest_minutes,
                                       args.cycles, args.tick,
                                       args.pre_rest_warning)
    /\ UNCHANGED <<horizon, args, callbacks, add_log, front_ends, now,
                   state_set, state, phase, cycle, timer_locals, resume_vars,
                   dispatch_log, all_history>>

\* add_callback creating the list of an unknown event name
AddCallback_setdefault(event) ==
    /\ pc = "idle"
    /\ Len(add_log) < MaxCallbacks
    /\ callbacks' =
          [e \in DOMAIN callbacks \cup {event} |->
              IF e = event
                THEN Append(IF e \in DOMAIN callbacks THEN callbacks[e] ELSE <<>>,
                            Len(add_log) + 1)
                ELSE callbacks[e]]
    /\ add_log' = Append(add_log, [event |-> event, raised |-> FALSE])
    /\ UNCHANGED <<cfg, horizon, args, front_ends, now, pc, state_set, state,
                   phase, cycle, timer_locals, resume_vars, dispatch_log,
                   all_history>>

\* add_callback(event, callback), called before start(); the callback is
\* identified by the number of the call
AddCallback(event) ==
    /\ pc = "idle"
    /\ Len(add_log) < MaxCallbacks
    /\ IF event \in DOMAIN callbacks
         THEN /\ callbacks' = [callbacks EXCEPT
                                 ![event] = Append(@, Len(add_log) + 1)]
              /\ add_log' = Append(add_log, [event |-> event, raised |-> FALSE])
         ELSE /\ callbacks' = callbacks
              /\ add_log' = Append(add_log, [event |-> event, raised |-> TRUE])
    /\ UNCHANGED <<cfg, horizon, args, front_ends, now, pc, state_set, state,
                   phase, cycle, timer_locals, resume_vars, dispatch_log,
                   all_history>>

\* ----------------------------------------------------------- the clock
\* the measure of un-paused time after one more clock step: the step counts
\* unless pause() has returned on the current TimerState and resume() has
\* not been called since
Elapse(u) ==
    IF u # <<>> /\ state_set /\ (~state.is_paused \/ rpc # "r_idle")
      THEN <<u[1] + 1>>
      ELSE u

ClockAdvance ==
    /\ now < horizon
    /\ pc # "done"
    /\ now' = now + 1
    /\ since_tick' = IF pc \in LoopPcs /\ since_tick < cfg.tick * TicksPerSecond
                      THEN since_tick + 1 ELSE since_tick
    /\ tick_read' = tick_read
    /\ unpaused' = Elapse(unpaused)
    /\ UNCHANGED <<setup, pc, state_set, state, phase, cycle, timer_locals,
                   resume_vars, dispatch_log, history, calls>>

\* ------------------------------------------------- timer thread: start()
\* start(): cycle = 1, enter the loop with the WORK phase
Start ==
    /\ pc = "idle"
    /\ cycle' = 1
    /\ phase' = "WORK"
    /\ pc' = "begin"
    /\ UNCHANGED <<setup, now, state_set, state, timer_locals, resume_vars,
                   dispatch_log, all_history>>

\* the new phase-run inheriting is_paused from the TimerState it replaces
Begin_keep_pause ==
    /\ pc = "begin"
    /\ LET total == DurationSeconds(IF phase = "WORK" THEN cfg.work_minutes
                                                     ELSE cfg.rest_minutes)
       IN /\ total_seconds' = total
          /\ state' = [TimerState(phase, cycle, total, now) EXCEPT
                          !.is_paused = state.is_paused]
    /\ state_set' = TRUE
    /\ pc' = "phase_start"
    /\ stop_in_run' = FALSE
    /\ skip_in_run' = FALSE
    /\ pause_held' = FALSE
    /\ start_shifted' = FALSE
    /\ ended_paused' = (state_set /\ state.is_paused)
    /\ limit_break' = limit_break
    /\ unpaused' = IF unpaused = <<>> THEN <<>> ELSE <<0>>
    /\ UNCHANGED <<setup, now, phase, cycle, pre_warning_sent, last_tick_time,
                   current_time, elapsed, wake, resume_vars, dispatch_log,
                   stop_done, calls, tick_read, since_tick>>

\* _run_phase lines 122-132: a fresh TimerState replaces self._state
Begin ==
    /\ pc = "begin"
    /\ LET total == DurationSeconds(IF phase = "WORK" THEN cfg.work_minutes
                                                     ELSE cfg.rest_minutes)
       IN /\ total_seconds' = total
          /\ state' = TimerState(phase, cycle, total, now)
    /\ state_set' = TRUE
    /\ pc' = "phase_start"
    /\ stop_in_run' = FALSE
    /\ skip_in_run' = FALSE
    /\ pause_held' = FALSE
    /\ start_shifted' = FALSE
    /\ ended_paused' = (state_set /\ state.is_paused)
    /\ limit_break' = limit_break
    /\ unpaused' = IF unpaused = <<>> THEN <<>> ELSE <<0>>
    /\ UNCHANGED <<setup, now, phase, cycle, pre_warning_sent, last_tick_time,
                   current_time, elapsed, wake, resume_vars, dispatch_log,
                   stop_done, calls, tick_read, since_tick>>

\* the short path taken for total_seconds <= 1 only
PhaseStart_under_two ==
    /\ pc = "phase_start"
    /\ Dispatch("phase_start")
    /\ IF total_seconds <= 1
         THEN /\ pc' = "short_sleep"
              /\ wake' = now + total_seconds * TicksPerSecond
         ELSE /\ pc' = "loop_init"
              /\ wake' = wake
    /\ UNCHANGED <<setup, now, state_set, state, phase, cycle, total_seconds,
                   pre_warning_sent, last_tick_time, current_time, elapsed,
                   resume_vars, all_history>>

\* line 139, and the branch of line 142; time.sleep(total_seconds) starts
PhaseStart ==
    /\ pc = "phase_start"
    /\ Dispatch("phase_start")
    /\ IF total_seconds <= 2
         THEN /\ pc' = "short_sleep"
              /\ wake' = now + total_seconds * TicksPerSecond
         ELSE /\ pc' = "loop_init"
              /\ wake' = wake
    /\ UNCHANGED <<setup, now, state_set, state, phase, cycle, total_seconds,
                   pre_warning_sent, last_tick_time, current_time, elapsed,
                   resume_vars, all_history>>

\* lines 143-144: the sleep is over, remaining_seconds = 0
ShortSleep ==
    /\ pc = "short_sleep"
    /\ now >= wake
    /\ state' = [state EXCEPT !.remaining_seconds = 0]
    /\ pc' = "short_end"
    /\ wake' = 0
    /\ UNCHANGED <<setup, now, state_set, phase, cycle, total_seconds,
                   pre_warning_sent, last_tick_time, current_time, elapsed,
                   resume_vars, dispatch_log, all_history>>

\* the short path returning without line 145: no phase_end
ShortEnd_silent ==
    /\ pc = "short_end"
    /\ UNCHANGED dispatch_log
    /\ pc' = "ret"
    /\ UNCHANGED <<setup, now, state_set, state, phase, cycle, timer_locals,
                   resume_vars, all_history>>

\* line 145: phase_end is dispatched whatever is_running says
ShortEnd ==
    /\ pc = "short_end"
    /\ Dispatch("phase_end")
    /\ pc' = "ret"
    /\ UNCHANGED <<setup, now, state_set, state, phase, cycle, timer_locals,
                   resume_vars, all_history>>

\* lines 149-150
LoopInit ==
    /\ pc = "loop_init"
    /\ pre_warning_sent' = FALSE
    /\ last_tick_time' = now
    /\ tick_read' = now
    /\ since_tick' = 0
    /\ unpaused' = unpaused
    /\ pc' = "loop_check"
    /\ UNCHANGED <<setup, now, state_set, state, phase, cycle, total_seconds,
                   current_time, elapsed, wake, resume_vars, dispatch_log, history, calls>>

\* line 152: while remaining_seconds > 0 and is_running
LoopCheck ==
    /\ pc = "loop_check"
    /\ IF state.remaining_seconds > 0 /\ state.is_running
         THEN /\ pc' = "poll_paused"
              /\ UNCHANGED <<pre_warning_sent, last_tick_time, tick_history>>
         ELSE /\ pc' = "end_check"
              /\ pre_warning_sent' = FALSE
              /\ last_tick_time' = 0
              /\ tick_read' = 0
              /\ since_tick' = 0
              /\ unpaused' = unpaused
    /\ UNCHANGED <<setup, now, state_set, state, phase, cycle, total_seconds,
                   current_time, elapsed, wake, resume_vars, dispatch_log, history, calls>>

\* line 153: if not is_paused
PollPaused ==
    /\ pc = "poll_paused"
    /\ pc' = IF ~state.is_paused THEN "poll_time" ELSE "sleep"
    /\ UNCHANGED <<setup, now, state_set, state, phase, cycle, timer_locals,
                   resume_vars, dispatch_log, all_history>>

\* line 154: current_time = time.time()
PollTime ==
    /\ pc = "poll_time"
    /\ current_time' = now
    /\ pc' = "poll_elapsed"
    /\ UNCHANGED <<setup, now, state_set, state, phase, cycle, total_seconds,
                   pre_warning_sent, last_tick_time, elapsed, wake,
                   resume_vars, dispatch_log, all_history>>

\* line 155: elapsed = current_time - start_time
PollElapsed ==
    /\ pc = "poll_elapsed"
    /\ elapsed' = current_time - state.start_time
    /\ pc' = "poll_write"
    /\ UNCHANGED <<setup, now, state_set, state, phase, cycle, total_seconds,
                   pre_warning_sent, last_tick_time, current_time, wake,
                   resume_vars, dispatch_log, all_history>>

\* line 156: remaining_seconds = max(0, total_seconds - int(elapsed))
PollWrite ==
    /\ pc = "poll_write"
    /\ state' = [state EXCEPT
                   !.remaining_seconds = Remaining(total_seconds, elapsed)]
    /\ pc' = "warn_check"
    /\ elapsed' = 0
    /\ UNCHANGED <<setup, now, state_set, phase, cycle, total_seconds,
                   pre_warning_sent, last_tick_time, current_time, wake,
                   resume_vars, dispatch_log, all_history>>

\* the test without `remaining_seconds > 0`
WarnCheck_at_zero ==
    /\ pc = "warn_check"
    /\ pc' = IF /\ phase = "REST"
                /\ ~pre_warning_sent
                /\ state.remaining_seconds <= cfg.pre_rest_warning
               THEN "warn_fire" ELSE "tick_check"
    /\ UNCHANGED <<setup, now, state_set, state, phase, cycle, timer_locals,
                   resume_vars, dispatch_log, all_history>>

\* lines 159-161
WarnCheck ==
    /\ pc = "warn_check"
    /\ pc' = IF /\ phase = "REST"
                /\ ~pre_warning_sent
                /\ state.remaining_seconds <= cfg.pre_rest_warning
                /\ state.remaining_seconds > 0
               THEN "warn_fire" ELSE "tick_check"
    /\ UNCHANGED <<setup, now, state_set, state, phase, cycle, timer_locals,
                   resume_vars, dispatch_log, all_history>>

\* the warning dispatched without recording that it was sent
WarnFire_no_flag ==
    /\ pc = "warn_fire"
    /\ Dispatch("pre_rest_warning")
    /\ pc' = "tick_check"
    /\ UNCHANGED <<setup, now, state_set, state, phase, cycle, timer_locals,
                   resume_vars, all_history>>

\* lines 165-166
WarnFire ==
    /\ pc = "warn_fire"
    /\ pre_warning_sent' = TRUE
    /\ Dispatch("pre_rest_warning")
    /\ pc' = "tick_check"
    /\ UNCHANGED <<setup, now, state_set, state, phase, cycle, total_seconds,
                   last_tick_time, current_time, elapsed, wake, resume_vars,
                   all_history>>

\* the tick dispatched without line 171, last_tick_time left as it was
TickCheck_no_update ==
    /\ pc = "tick_check"
    /\ IF current_time - last_tick_time >= cfg.tick * TicksPerSecond
         THEN /\ Dispatch("tick")
              /\ last_tick_time' = last_tick_time
              /\ tick_read' = current_time
              /\ since_tick' = 0
              /\ unpaused' = unpaused
         ELSE UNCHANGED <<dispatch_log, last_tick_time, tick_history>>
    /\ pc' = "sleep"
    /\ current_time' = 0
    /\ UNCHANGED <<setup, now, state_set, state, phase, cycle, total_seconds,
                   pre_warning_sent, elapsed, wake, resume_vars, history, calls>>

\* lines 169-171
TickCheck ==
    /\ pc = "tick_check"
    /\ IF current_time - last_tick_time >= cfg.tick * TicksPerSecond
         THEN /\ Dispatch("tick")
              /\ last_tick_time' = current_time
              /\ tick_read' = current_time
              /\ since_tick' = 0
              /\ unpaused' = unpaused
         ELSE UNCHANGED <<dispatch_log, last_tick_time, tick_history>>
    /\ pc' = "sleep"
    /\ current_time' = 0
    /\ UNCHANGED <<setup, now, state_set, state, phase, cycle, total_seconds,
                   pre_warning_sent, elapsed, wake, resume_vars, history, calls>>

\* line 174: time.sleep(0.1), shorter than one clock unit
Sleep ==
    /\ pc = "sleep"
    /\ pc' = "loop_check"
    /\ UNCHANGED <<setup, now, state_set, state, phase, cycle, timer_locals,
                   resume_vars, dispatch_log, all_history>>

\* line 177: if is_running
EndCheck ==
    /\ pc = "end_check"
    /\ pc' = IF state.is_running THEN "end_fire" ELSE "ret"
    /\ UNCHANGED <<setup, now, state_set, state, phase, cycle, timer_locals,
                   resume_vars, dispatch_log, all_history>>

\* line 185
EndFire ==
    /\ pc = "end_fire"
    /\ Dispatch("phase_end")
    /\ pc' = "ret"
    /\ UNCHANGED <<setup, now, state_set, state, phase, cycle, timer_locals,
                   resume_vars, all_history>>

\* the cycle number counted up before REST instead of after it
Ret_count_before_rest ==
    /\ pc = "ret"
    /\ IF ~state.is_running
         THEN /\ pc' = "complete"
              /\ UNCHANGED <<phase, cycle>>
         ELSE IF phase = "WORK"
           THEN IF LimitReached(cycle)
                  THEN /\ pc' = "complete"
                       /\ UNCHANGED <<phase, cycle>>
                  ELSE /\ cycle < MaxCycle
                       /\ pc' = "begin"
                       /\ phase' = "REST"
                       /\ cycle' = cycle + 1
           ELSE /\ pc' = "begin"
                /\ phase' = "WORK"
                /\ UNCHANGED cycle
    /\ limit_break' = (state.is_running /\ phase = "WORK"
                                          /\ LimitReached(cycle))
    /\ UNCHANGED <<setup, now, state_set, state, timer_locals, resume_vars,
                   dispatch_log, stop_done, stop_in_run, skip_in_run,
                   pause_held, start_shifted, ended_paused, calls,
                   tick_history>>

\* `return self._state.is_running` (lines 146, 187) and the caller's
\* branch in start() (lines 102-113)
Ret ==
    /\ pc = "ret"
    /\ IF ~state.is_running
         THEN /\ pc' = "complete"
              /\ UNCHANGED <<phase, cycle>>
         ELSE IF phase = "WORK"
           THEN IF LimitReached(cycle)
                  THEN /\ pc' = "complete"
                       /\ UNCHANGED <<phase, cycle>>
                  ELSE /\ pc' = "begin"
                       /\ phase' = "REST"
                       /\ UNCHANGED cycle
           ELSE /\ cycle < MaxCycle
                /\ pc' = "begin"
                /\ phase' = "WORK"
                /\ cycle' = cycle + 1
    /\ limit_break' = (state.is_running /\ phase = "WORK"
                                          /\ LimitReached(cycle))
    /\ UNCHANGED <<setup, now, state_set, state, timer_locals, resume_vars,
                   dispatch_log, stop_done, stop_in_run, skip_in_run,
                   pause_held, start_shifted, ended_paused, calls,
                   tick_history>>

\* timer_complete dispatched after the loop instead of in `finally`, so that
\* a stopped run returns without it
Complete_no_finally ==
    /\ pc = "complete"
    /\ IF state.is_running THEN Dispatch("timer_complete")
                           ELSE UNCHANGED dispatch_log
    /\ pc' = "done"
    /\ UNCHANGED <<setup, now, state_set, state, phase, cycle,
                   timer_locals, resume_vars, all_history>>

\* line 118: finally: _trigger_callbacks('timer_complete')
Complete ==
    /\ pc = "complete"
    /\ Dispatch("timer_complete")
    /\ pc' = "done"
    /\ UNCHANGED <<setup, now, state_set, state, phase, cycle, timer_locals,
                   resume_vars, all_history>>

\* --------------------------------------------- controller thread, signal
\* the controller thread is between two control calls and start() has not
\* returned
CanCall == rpc = "r_idle" /\ pc # "done" /\ calls < MaxCalls

\* pause() without the `if self._state:` guard
Pause_unguarded ==
    /\ CanCall
    /\ state' = [state EXCEPT !.is_paused = TRUE]
    /\ pause_held' = (pause_held \/ state_set)
    /\ calls' = calls + 1
    /\ UNCHANGED <<setup, now, pc, state_set, phase, cycle, timer_locals,
                   resume_vars, dispatch_log, stop_done, stop_in_run, skip_in_run,
                   start_shifted, ended_paused, limit_break,
                   tick_history>>

\* pause()
Pause ==
    /\ CanCall
    /\ state' = IF state_set THEN [state EXCEPT !.is_paused = TRUE] ELSE state
    /\ pause_held' = (pause_held \/ state_set)
    /\ calls' = calls + 1
    /\ UNCHANGED <<setup, now, pc, state_set, phase, cycle, timer_locals,
                   resume_vars, dispatch_log, stop_done, stop_in_run, skip_in_run,
                   start_shifted, ended_paused, limit_break,
                   tick_history>>

\* `if self._state: self._state.is_running = False`, the body of stop()
\* and of the signal handler
SetNotRunning ==
    /\ IF state_set
         THEN /\ state' = [state EXCEPT !.is_running = FALSE]
              /\ stop_done' = (stop_done \/ pc # "idle")
              /\ stop_in_run' = (stop_in_run \/ pc \in InRunPcs)
         ELSE UNCHANGED <<state, stop_done, stop_in_run>>
    /\ UNCHANGED <<setup, now, pc, state_set, phase, cycle, timer_locals,
                   resume_vars, dispatch_log, skip_in_run, pause_held,
                   start_shifted, ended_paused, limit_break,
                   tick_history>>

\* stop()
Stop ==
    /\ CanCall
    /\ SetNotRunning
    /\ calls' = calls + 1

\* signal_handler(sig, frame): runs between any two statements
SignalHandler ==
    /\ pc # "done" /\ calls < MaxCalls
    /\ SetNotRunning
    /\ calls' = calls + 1

\* skip_phase() also lifting the pause
SkipPhase_unpause ==
    /\ CanCall
    /\ IF state_set
         THEN /\ state' = [state EXCEPT !.remaining_seconds = 0,
                                        !.is_paused = FALSE]
              /\ skip_in_run' = (skip_in_run \/ pc \in LoopPcs)
         ELSE UNCHANGED <<state, skip_in_run>>
    /\ pause_held' = FALSE
    /\ calls' = calls + 1
    /\ UNCHANGED <<setup, now, pc, state_set, phase, cycle, timer_locals,
                   resume_vars, dispatch_log, stop_done, stop_in_run,
                   start_shifted, ended_paused, limit_break,
                   tick_history>>

\* skip_phase()
SkipPhase ==
    /\ CanCall
    /\ IF state_set
         THEN /\ state' = [state EXCEPT !.remaining_seconds = 0]
              /\ skip_in_run' = (skip_in_run \/ pc \in LoopPcs)
         ELSE UNCHANGED <<state, skip_in_run>>
    /\ pause_held' = FALSE
    /\ calls' = calls + 1
    /\ UNCHANGED <<setup, now, pc, state_set, phase, cycle, timer_locals,
                   resume_vars, dispatch_log, stop_done, stop_in_run,
                   start_shifted, ended_paused, limit_break,
                   tick_history>>

\* resume() without the test of is_paused in its guard
ResumeCheck_any_state ==
    /\ CanCall
    /\ IF state_set
         THEN /\ r_time' = now
              /\ rpc' = "r_read"
         ELSE UNCHANGED <<r_time, rpc>>
    /\ pause_held' = FALSE
    /\ calls' = calls + 1
    /\ UNCHANGED <<setup, now, pc, state_set, state, phase, cycle,
                   timer_locals, r_elapsed, r_seen, dispatch_log, stop_done,
                   stop_in_run, skip_in_run, start_shifted,
                   ended_paused, limit_break,
                   tick_history>>

\* resume(), lines 196-198: the guard, current_time = time.time()
ResumeCheck ==
    /\ CanCall
    /\ IF state_set /\ state.is_paused
         THEN /\ r_time' = now
              /\ rpc' = "r_read"
         ELSE UNCHANGED <<r_time, rpc>>
    /\ pause_held' = FALSE
    /\ calls' = calls + 1
    /\ UNCHANGED <<setup, now, pc, state_set, state, phase, cycle,
                   timer_locals, r_elapsed, r_seen, dispatch_log, stop_done,
                   stop_in_run, skip_in_run, start_shifted,
                   ended_paused, limit_break,
                   tick_history>>

\* resume(), line 199: elapsed_before_pause
ResumeRead ==
    /\ rpc = "r_read"
    /\ r_elapsed' = state.total_seconds - state.remaining_seconds
    /\ r_seen' = <<state.total_seconds, state.remaining_seconds>>
    /\ rpc' = "r_write"
    /\ UNCHANGED <<setup, now, pc, state_set, state, phase, cycle, timer_locals,
                   r_time, dispatch_log, all_history>>

\* resume(), lines 200-201; the locals of resume() die with the return
ResumeWrite ==
    /\ rpc = "r_write"
    /\ state' = [state EXCEPT !.start_time = ResumeStart(r_time, r_elapsed),
                              !.is_paused = FALSE]
    /\ rpc' = "r_idle"
    /\ r_time' = 0
    /\ r_elapsed' = 0
    /\ r_seen' = <<>>
    /\ start_shifted' = (start_shifted
                          \/ ResumeStart(r_time, r_elapsed) > state.start_time)
    /\ UNCHANGED <<setup, now, pc, state_set, phase, cycle, timer_locals,
                   dispatch_log, stop_done, stop_in_run, skip_in_run, pause_held,
                   ended_paused, limit_break, calls,
                   tick_history>>

\* ------------------------------------- the legacy overlay_original.py
\* phase_duration(): work_s = int(work_min * 60), rest_s = int(rest_min * 60)
PhaseDuration(ph) ==
    DurationSeconds(IF ph = "WORK" THEN cfg.work_minutes ELSE cfg.rest_minutes)

\* the round limit tested the way core.py tests its cycle limit
RoundLimitPassed_as_core(r) == CyclesTruthy /\ r >= cfg.cycles[1]

\* `self.round_limit and self.round > self.round_limit`
RoundLimitPassed(r) == CyclesTruthy /\ r > cfg.cycles[1]

\* __init__ and update_ui_initial; the timer thread is started
LegacyNew ==
    /\ legacy.pc = "new"
    /\ legacy' = [pc |-> "test", round |-> 1, phase |-> "WORK",
                  running |-> TRUE, paused |-> FALSE,
                  remaining |-> PhaseDuration("WORK"), start_ts |-> now,
                  pre_notice_sent |-> FALSE,
                  log |-> <<[phase |-> "WORK", round |-> 1]>>]
    /\ UNCHANGED <<cfg, horizon, args, callbacks, add_log, ui, now, pc,
                   state_set, state, phase, cycle, timer_locals, resume_vars,
                   dispatch_log, all_history>>

\* what a step of the legacy overlay leaves alone
legacy_frame == <<cfg, horizon, args, callbacks, add_log, ui, now, pc,
                  state_set, state, phase, cycle, timer_locals, resume_vars,
                  dispatch_log, history, tick_history>>

\* timer_loop: `while self.running:` and `if not self.paused:`
LegacyTest ==
    /\ legacy.pc = "test"
    /\ legacy' = [legacy EXCEPT !.pc = IF ~legacy.running THEN "exit"
                                       ELSE IF legacy.paused THEN "sleep"
                                       ELSE "poll"]
    /\ UNCHANGED <<legacy_frame, calls>>

\* timer_loop: remaining = max(0, dur - int(time.time() - _start_ts))
LegacyPoll ==
    /\ legacy.pc = "poll"
    /\ legacy' = [legacy EXCEPT
                    !.remaining = Max(0, PhaseDuration(legacy.phase)
                                           - PyInt(now - legacy.start_ts)),
                    !.pc = "notice"]
    /\ UNCHANGED <<legacy_frame, calls>>

\* timer_loop: the pre-rest notice
LegacyNotice ==
    /\ legacy.pc = "notice"
    /\ legacy' = [legacy EXCEPT
                    !.pre_notice_sent =
                        \/ legacy.pre_notice_sent
                        \/ /\ legacy.phase = "REST"
                           /\ legacy.remaining <= cfg.pre_rest_warning
                           /\ legacy.remaining > 0,
                    !.pc = "switch"]
    /\ UNCHANGED <<legacy_frame, calls>>

\* switch_phase()
SwitchPhase ==
    IF legacy.phase = "WORK"
      THEN [legacy EXCEPT
              !.phase = "REST",
              !.remaining = PhaseDuration("REST"),
              !.start_ts = now,
              !.pre_notice_sent = FALSE,
              !.log = Append(@, [phase |-> "REST", round |-> legacy.round])]
      ELSE [legacy EXCEPT
              !.phase = "WORK",
              !.remaining = PhaseDuration("WORK"),
              !.start_ts = now,
              !.round = @ + 1,
              !.pre_notice_sent = FALSE,
              !.running = ~RoundLimitPassed(legacy.round + 1),
              !.log = IF RoundLimitPassed(legacy.round + 1) THEN @
                      ELSE Append(@, [phase |-> "WORK",
                                      round |-> legacy.round + 1])]

\* timer_loop: `if self.remaining <= 0: self.switch_phase()`
LegacySwitch ==
    /\ legacy.pc = "switch"
    /\ legacy.remaining <= 0 => legacy.round <= MaxCycle
    /\ legacy' = [(IF legacy.remaining <= 0 THEN SwitchPhase ELSE legacy)
                    EXCEPT !.pc = "sleep"]
    /\ UNCHANGED <<legacy_frame, calls>>

\* timer_loop: time.sleep(0.25)
LegacySleep ==
    /\ legacy.pc = "sleep"
    /\ legacy' = [legacy EXCEPT !.pc = "test"]
    /\ UNCHANGED <<legacy_frame, calls>>

\* toggle_pause(), on the Tk thread
LegacyTogglePause ==
    /\ legacy.pc \notin {"new", "exit"}
    /\ calls < MaxCalls
    /\ legacy' = [legacy EXCEPT
                    !.paused = ~legacy.paused,
                    !.start_ts =
                        IF legacy.paused
                          THEN now - (PhaseDuration(legacy.phase)
                                        - legacy.remaining) * TicksPerSecond
                          ELSE @]
    /\ calls' = calls + 1
    /\ UNCHANGED legacy_frame

\* skip_phase(), on the Tk thread
LegacySkipPhase ==
    /\ legacy.pc \notin {"new", "exit"}
    /\ calls < MaxCalls
    /\ legacy' = [legacy EXCEPT !.remaining = 0]
    /\ calls' = calls + 1
    /\ UNCHANGED legacy_frame

\* ------------------------------------------ the overlay of overlay_ui.py
\* OverlayUI.__init__: the flags, the timer built with the front-end's
\* notification manager, the five callbacks registered
UiNew ==
    /\ ui.pc = "new"
    /\ pc = "idle"
    /\ ui' = [pc |-> "run", is_paused |-> FALSE, toggle |-> <<>>,
              pre_notice_sent |-> FALSE, seen |-> 0,
              pending |-> {}, notices |-> <<>>]
    /\ UNCHANGED <<cfg, horizon, args, callbacks, add_log, legacy, now, pc,
                   state_set, state, phase, cycle, timer_locals, resume_vars,
                   dispatch_log, all_history>>

\* what a step of the front-end leaves alone
ui_frame == <<cfg, horizon, args, callbacks, add_log, legacy, now, pc,
              state_set, state, phase, cycle, timer_locals, resume_vars,
              dispatch_log, all_history>>

\* the front-end's callback for the latest dispatch, run by the timer thread
\* inside _trigger_callbacks: _on_phase_start clears pre_notice_sent, _on_tick
\* queues _update_display(state) on the Tk thread, _on_pre_rest_warning sets
\* pre_notice_sent
UiCallback ==
    /\ ui.pc = "run"
    /\ ui.seen < Len(events)
    /\ LET e == events[ui.seen + 1]
       IN ui' = [ui EXCEPT
                   !.seen = @ + 1,
                   !.pre_notice_sent =
                       IF e.name = "phase_start" THEN FALSE
                       ELSE IF e.name = "pre_rest_warning" THEN TRUE
                       ELSE @,
                   !.pending =
                       IF e.name = "tick"
                         THEN @ \cup {[phase |-> e.phase, cycle |-> e.cycle]}
                         ELSE @]
    /\ UNCHANGED ui_frame

\* the pre-rest test of _update_display on the TimerState it was queued with
UiWarns(s) ==
    /\ s.phase = state.phase /\ s.cycle = state.cycle
    /\ state.phase = "REST"
    /\ ~ui.pre_notice_sent
    /\ state.remaining_seconds <= cfg.pre_rest_warning
    /\ state.remaining_seconds > 0

\* _update_display(state) run by the Tk thread; the TimerState of a
\* phase-run that has ended has remaining_seconds = 0 in these runs
UiUpdateDisplay ==
    /\ ui.pc = "run"
    /\ \E s \in ui.pending :
          ui' = [ui EXCEPT
                   !.pending = @ \ {s},
                   !.pre_notice_sent = @ \/ UiWarns(s),
                   !.notices = IF UiWarns(s) THEN Append(@, s.cycle) ELSE @]
    /\ UNCHANGED ui_frame

\* _toggle_pause, line 207: the pause button is pressed and the front-end's
\* own is_paused is read; ui.toggle keeps the number of control calls made
\* before the one this press makes. The button is pressed in the window,
\* shown after the timer thread has created its first TimerState
UiToggleBegin ==
    /\ ui.pc = "run"
    /\ ui.toggle = <<>>
    /\ state_set
    /\ CanCall
    /\ ui' = [ui EXCEPT !.toggle = <<calls>>]
    /\ UNCHANGED ui_frame

\* _toggle_pause, lines 207-212: timer.resume() if the front-end's flag is
\* set, else timer.pause()
UiToggleCall ==
    /\ ui.pc = "run"
    /\ ui.toggle = <<calls>>
    /\ IF ui.is_paused THEN ResumeCheck ELSE Pause

\* _toggle_pause, line 213, once the call has returned:
\* self.is_paused = not self.is_paused
UiToggleEnd ==
    /\ ui.pc = "run"
    /\ ui.toggle # <<>> /\ ui.toggle # <<calls>>
    /\ rpc = "r_idle"
    /\ ui' = [ui EXCEPT !.is_paused = ~@, !.toggle = <<>>]
    /\ UNCHANGED ui_frame

\* _skip_phase: timer.skip_phase(), the front-end's flag left as it is
UiSkipPhase ==
    /\ ui.pc = "run"
    /\ ui.toggle = <<>>
    /\ state_set
    /\ SkipPhase

\* the timer thread is waiting for the clock: time.sleep(total_seconds) of
\* line 143 has not returned, or the loop of line 152 still has time to count
ClockAwaited ==
    \/ pc = "short_sleep" /\ now < wake
    \/ /\ pc \in LoopPcs \cup {"loop_init"}
       /\ now < state.start_time + total_seconds * TicksPerSecond

\* time.time() keeps advancing for as long as the timer thread waits for it
ClockWait ==
    /\ ClockAwaited
    /\ now' = now + 1
    /\ since_tick' = IF pc \in LoopPcs /\ since_tick < cfg.tick * TicksPerSecond
                      THEN since_tick + 1 ELSE since_tick
    /\ tick_read' = tick_read
    /\ unpaused' = Elapse(unpaused)
    /\ UNCHANGED <<setup, pc, state_set, state, phase, cycle, timer_locals,
                   resume_vars, dispatch_log, history, calls>>

\* ------------------------------------------------------- specifications
TimerStep ==
    \/ Start \/ Begin \/ PhaseStart \/ ShortSleep \/ ShortEnd \/ LoopInit
    \/ LoopCheck \/ PollPaused \/ PollTime \/ PollElapsed \/ PollWrite
    \/ WarnCheck \/ WarnFire \/ TickCheck \/ Sleep \/ EndCheck \/ EndFire
    \/ Ret \/ Complete

Next ==
    \/ ClockAdvance
    \/ Start \/ Begin \/ PhaseStart \/ ShortSleep \/ ShortEnd \/ LoopInit
    \/ LoopCheck \/ PollPaused \/ PollTime \/ PollElapsed \/ PollWrite
    \/ WarnCheck \/ WarnFire \/ TickCheck \/ Sleep \/ EndCheck \/ EndFire
    \/ Ret \/ Complete
    \/ Pause \/ Stop \/ SignalHandler \/ SkipPhase
    \/ ResumeCheck \/ ResumeRead \/ ResumeWrite

Spec == Init /\ [][Next]_vars

\* the timer thread and the clock alone
QuietNext == ClockAdvance \/ TimerStep

QuietSpec == QuietInit /\ [][QuietNext]_vars

\* add_callback called with known and unknown event names
RegisterNext == \E event \in RegisterNames : AddCallback(event)

RegisterSpec == DispatchInit /\ [][RegisterNext]_vars

\* callbacks registered, then a run without control calls
DispatchNext ==
    \/ \E event \in DispatchNames : AddCallback(event)
    \/ ClockAdvance
    \/ TimerStep

DispatchSpec == DispatchInit /\ [][DispatchNext]_vars

\* a configuration constructed, then a run without control calls
ConstructNext == Construct \/ ClockAdvance \/ TimerStep

ConstructSpec == ConstructInit /\ [][ConstructNext]_vars

\* configurations with a cycle limit of 0 or a pre-rest warning of 0 s,
\* constructed and then run, skipped and stopped
ZeroArgs ==
    [work_minutes : {1}, rest_minutes : {5}, cycles : {<<0>>, <<2>>},
     tick : {1}, pre_rest_warning : {0, 1}, alpha : {95}, scale : {100}]

ZeroInit ==
    /\ args \in ZeroArgs
    /\ cfg = NoConfig
    /\ pc = "construct"
    /\ InitRun(MaxTime)
    /\ unpaused = <<>>

ZeroNext ==
    \/ Construct
    \/ ClockAdvance
    \/ TimerStep
    \/ Stop \/ SkipPhase

ZeroSpec == ZeroInit /\ [][ZeroNext]_vars

\* phase-runs of exactly 2 s, the longest that take the short path, next to
\* polled ones, under control calls
ShortConfigs == {PomodoroConfig(4, 5, <<2>>, 1, 1),
                 PomodoroConfig(5, 4, <<2>>, 1, 1)}

ShortInit == InitWith(ShortConfigs, MaxTime)

ShortSpec == ShortInit /\ [][Next]_vars

\* runs without a cycle limit in which phases are skipped and the timer is
\* stopped or interrupted
EndlessConfigs == {PomodoroConfig(1, 5, <<>>, 1, 1)}

EndlessInit == InitWith(EndlessConfigs, MaxTime)

EndlessNext ==
    \/ ClockAdvance
    \/ TimerStep
    \/ Stop \/ SignalHandler \/ SkipPhase

EndlessSpec == EndlessInit /\ [][EndlessNext]_vars

\* the legacy overlay run with a round limit, paused, resumed and skipped
\* from its buttons and never closed by the user
LegacyConfigs == {PomodoroConfig(1, 5, <<2>>, 1, 1),
                  PomodoroConfig(2, 2, <<1>>, 1, 1)}

LegacyInit == InitWith(LegacyConfigs, QuietMaxTime)

LegacyNext ==
    \/ ClockAdvance
    \/ LegacyNew \/ LegacyTest \/ LegacyPoll \/ LegacyNotice \/ LegacySwitch
    \/ LegacySleep
    \/ LegacyTogglePause \/ LegacySkipPhase

LegacySpec == LegacyInit /\ [][LegacyNext]_vars

\* the overlay front-end: the timer thread with the front-end's callbacks
\* and the Tk thread running the queued display updates
OverlayConfigs == {PomodoroConfig(1, 5, <<2>>, 1, 1)}

OverlayInit == InitWith(OverlayConfigs, MaxTime)

\* a step of timer.start() on the overlay's timer thread: the callbacks of
\* a dispatch have returned before the thread goes on
OverlayTimerStep ==
    /\ ui.pc = "run"
    /\ ui.seen = Len(events)
    /\ TimerStep

OverlayNext ==
    \/ ClockAdvance
    \/ UiNew \/ UiCallback \/ UiUpdateDisplay
    \/ OverlayTimerStep

OverlaySpec == OverlayInit /\ [][OverlayNext]_vars

\* the overlay front-end under its pause and skip buttons
ButtonsNext ==
    \/ ClockAdvance
    \/ UiNew \/ UiCallback
    \/ OverlayTimerStep
    \/ UiToggleBegin \/ UiToggleCall \/ UiToggleEnd
    \/ ResumeRead \/ ResumeWrite
    \/ UiSkipPhase

ButtonsSpec == OverlayInit /\ [][ButtonsNext]_vars

\* runs with a cycle limit, paused and resumed by the controller during the
\* polled phase-runs (a pause on the short path has no effect), in which
\* the timer thread keeps being scheduled, the clock advances whenever the
\* timer thread waits for it, and a resume() that was called returns
LiveConfigs == {PomodoroConfig(1, 5, <<2>>, 1, 1)}

LiveInit == InitWith(LiveConfigs, 0)

\* the timer thread is in a phase-run that takes the polling loop, between
\* the new TimerState and the end of the loop
InPolledRun ==
    /\ pc \in LoopPcs \cup {"phase_start", "loop_init"}
    /\ total_seconds > 2

LiveNext ==
    \/ ClockWait
    \/ TimerStep
    \/ InPolledRun /\ Pause
    \/ InPolledRun /\ ResumeCheck
    \/ ResumeRead \/ ResumeWrite

LiveSpec ==
    /\ LiveInit
    /\ [][LiveNext]_vars
    /\ WF_vars(TimerStep)
    /\ WF_vars(ClockWait)
    /\ WF_vars(ResumeRead \/ ResumeWrite)

\* runs paused and resumed by the controller at any moments of the polled
\* phase-runs, in which the un-paused time of each phase-run is measured
PausedConfigs == {PomodoroConfig(1, 5, <<2>>, 1, 1)}

PausedInit ==
    /\ cfg \in PausedConfigs
    /\ args = ArgsOf(cfg)
    /\ pc = "idle"
    /\ InitRun(MaxTime)
    /\ unpaused = <<0>>

PausedNext ==
    \/ ClockAdvance
    \/ TimerStep
    \/ InPolledRun /\ Pause
    \/ InPolledRun /\ ResumeCheck
    \/ ResumeRead \/ ResumeWrite

PausedSpec == PausedInit /\ [][PausedNext]_vars

\* ------------------------------------------------------------ the claims
\* number of dispatches of an event, over all phases and for one phase
CountNamed(name) ==
    Cardinality({i \in DOMAIN events : events[i].name = name})
CountEvents(name, ph) ==
    Cardinality({i \in DOMAIN events :
                    events[i].name = name /\ events[i].phase = ph})

\* this step dispatches an event
DispatchStep == Len(events') = Len(events) + 1

\* this step dispatches the event
Dispatched(name) ==
    /\ Len(events') = Len(events) + 1
    /\ events'[Len(events')].name = name

\* C1: in a run of start(), timer_complete is dispatched exactly once, when
\* start() returns, and it is the last event dispatched, whether the loop
\* ended at the cycle limit or by stop() / a signal.
C1_TimerCompleteOnceAndLast ==
    /\ \A i \in DOMAIN events :
          events[i].name = "timer_complete" => (i = Len(events) /\ pc = "done")
    /\ pc = "done" => CountNamed("timer_complete") = 1

\* a run ended by stop() has returned
C1_StoppedRunCompleted ==
    /\ pc = "done"
    /\ stop_done
    /\ ~state.is_running
    /\ events[Len(events)].name = "timer_complete"

\* a run ended by the cycle limit has returned
C1_LimitRunCompleted ==
    /\ pc = "done"
    /\ state.is_running
    /\ state.cycle = cfg.cycles[1]
    /\ events[Len(events)].name = "timer_complete"

\* C2: with a cycle limit N >= 1 and no control call, a run dispatches
\* exactly N phase_start of WORK and N-1 phase_start of REST, then
\* timer_complete.
C2_CycleAccounting ==
    CyclesTruthy =>
        /\ CountEvents("phase_start", "WORK") <= cfg.cycles[1]
        /\ CountEvents("phase_start", "REST") <= cfg.cycles[1] - 1
        /\ pc = "done" =>
              /\ CountEvents("phase_start", "WORK") = cfg.cycles[1]
              /\ CountEvents("phase_start", "REST") = cfg.cycles[1] - 1
              /\ events[Len(events)].name = "timer_complete"

\* a run of two cycles with polled WORK phases has returned
C2_TwoCyclesCompleted ==
    /\ pc = "done"
    /\ cfg.cycles = <<2>>
    /\ cfg.work_minutes = 5
    /\ CountEvents("phase_start", "REST") = 1

\* C3: with --no-loop (cycles = 1) the timer runs one WORK phase-run followed
\* by one REST phase-run and then exits.
C3_NoLoopRunsWorkThenRest ==
    (pc = "done" /\ cfg.cycles = <<1>>) =>
        /\ CountEvents("phase_start", "WORK") = 1
        /\ CountEvents("phase_start", "REST") = 1

\* C4: once stop() or the signal handler has set is_running to false during
\* a run of start(), no further phase-run starts: no TimerState is
\* constructed for a next phase-run.
C4_NoPhaseRunAfterStop ==
    [][stop_done => ~(pc = "begin" /\ pc' = "phase_start")]_vars

\* C5: after stop() hit a WORK phase-run between its phase_start and its
\* phase_end, that phase-run's phase_end is not dispatched and the polling
\* loop starts no further iteration, whatever the work duration.
C5_StopSuppressesPhaseEnd ==
    [][(stop_in_run /\ state.phase = "WORK") =>
          /\ ~Dispatched("phase_end")
          /\ ~(pc = "loop_check" /\ pc' = "poll_paused")]_vars

\* C6: after skip_phase() hit a running polling loop, remaining_seconds stays
\* 0 until the phase-run ends, and the loop's next check leaves the loop.
C6_SkipHoldsZero ==
    [][(skip_in_run /\ pc \in LoopPcs) =>
          /\ state'.remaining_seconds = 0
          /\ (pc = "loop_check" /\ pc' # pc) => pc' = "end_check"]_vars

\* C7: from the return of pause() until resume() or skip_phase() is called,
\* remaining_seconds of the phase-run does not change, wherever the polling
\* loop stands.
C7_PausedRemainingFrozen ==
    [][(pause_held /\ pause_held' /\ pc \in LoopPcs) =>
          state'.remaining_seconds = state.remaining_seconds]_vars

\* C8: resume() of a state it read as paused with remaining_seconds = R at
\* time t sets start_time = t - (total_seconds - R) and clears is_paused, and
\* a poll at the same instant t computes remaining_seconds = R, whatever the
\* time spent paused.
C8_ResumeRoundTrip ==
    [][(rpc = "r_write" /\ rpc' = "r_idle") =>
          LET T == r_seen[1]
              R == r_seen[2]
          IN /\ state'.start_time = r_time - (T - R) * TicksPerSecond
             /\ Remaining(T, r_time - state'.start_time) = R
             /\ ~state'.is_paused]_vars

\* resume() has absorbed a pause into start_time, and the count-down
\* continues from the value it was paused at
C8_ResumedAfterPause ==
    /\ start_shifted
    /\ rpc = "r_idle"
    /\ pc \in LoopPcs
    /\ ~state.is_paused
    /\ state.remaining_seconds > 0
    /\ state.remaining_seconds < state.total_seconds
    /\ Remaining(state.total_seconds, now - state.start_time)
          = state.remaining_seconds

\* C9: within one phase-run remaining_seconds never increases.
C9_RemainingNeverIncreases ==
    [][pc # "begin" =>
          state'.remaining_seconds <= state.remaining_seconds]_vars

\* C10: in every state of every phase-run,
\* 0 <= remaining_seconds <= total_seconds.
C10_RemainingWithinTotal ==
    state_set =>
        /\ 0 <= state.remaining_seconds
        /\ state.remaining_seconds <= state.total_seconds

\* ------------------------------------------------ order within a phase-run
\* events[i] and events[j] were dispatched by the same phase-run
SameRun(i, j) ==
    /\ events[i].name # "timer_complete"
    /\ events[j].name # "timer_complete"
    /\ events[i].phase = events[j].phase
    /\ events[i].cycle = events[j].cycle

\* C11 (as stated): within a phase-run no tick is dispatched after the
\* pre_rest_warning of that phase-run.
C11_NoTickAfterWarning ==
    \A i, j \in DOMAIN events :
        (i < j /\ SameRun(i, j) /\ events[i].name = "pre_rest_warning")
            => events[j].name # "tick"

\* C11 (amended): within a phase-run phase_start is dispatched first and
\* phase_end last, pre_rest_warning is dispatched at most once and only in
\* a REST phase-run; ticks are dispatched before and after it.
C11_PhaseRunOrder ==
    \A i, j \in DOMAIN events :
        (i < j /\ SameRun(i, j)) =>
            /\ events[j].name # "phase_start"
            /\ events[i].name # "phase_end"
            /\ ~(events[i].name = "pre_rest_warning"
                    /\ events[j].name = "pre_rest_warning")
            /\ events[j].name = "pre_rest_warning" => events[j].phase = "REST"

\* a REST phase-run dispatched a tick between its pre_rest_warning and its
\* phase_end
C11_TickBetweenWarningAndEnd ==
    \E i, j, k \in DOMAIN events :
        /\ i < j /\ j < k
        /\ SameRun(i, j) /\ SameRun(j, k)
        /\ events[i].name = "pre_rest_warning"
        /\ events[j].name = "tick"
        /\ events[k].name = "phase_end"

\* C12: pre_rest_warning is dispatched at most once per REST phase-run,
\* never during a WORK phase-run, and only at a moment when
\* 0 < remaining_seconds <= config.pre_rest_warning.
C12_WarningOnlyInWindow ==
    [][Dispatched("pre_rest_warning") =>
          /\ state.phase = "REST"
          /\ 0 < state.remaining_seconds
          /\ state.remaining_seconds <= cfg.pre_rest_warning
          /\ \A i \in DOMAIN events :
                ~(/\ events[i].name = "pre_rest_warning"
                  /\ events[i].phase = state.phase
                  /\ events[i].cycle = state.cycle)]_vars

\* ------------------------------------------------------ tick rate limiting
\* C13 (as stated): a tick is dispatched at least config.tick after the
\* previous tick of its phase-run was dispatched, the first tick at least
\* config.tick after the polling loop began.
C13_TicksApart ==
    [][Dispatched("tick") => since_tick >= cfg.tick * TicksPerSecond]_vars

\* C13 (amended): the clock reading of the loop iteration that dispatches a
\* tick is at least config.tick later than the reading of the iteration that
\* dispatched the previous tick of the phase-run, or than the reading taken
\* when the polling loop began; no tick is dispatched before its reading.
C13_TickReadingsApart ==
    [][Dispatched("tick") =>
          /\ current_time - tick_read >= cfg.tick * TicksPerSecond
          /\ now >= current_time]_vars

\* a phase-run has dispatched two ticks
C13_TwoTicksInRun ==
    \E i, j \in DOMAIN events :
        /\ i < j
        /\ SameRun(i, j)
        /\ events[i].name = "tick"
        /\ events[j].name = "tick"

\* ------------------------------------------------------------- callbacks
\* the five event names of the engine
EventNames ==
    {"phase_start", "tick", "pre_rest_warning", "phase_end", "timer_complete"}

\* the add_callback calls that registered a callback for the event, in order
Registered(name) ==
    {k \in DOMAIN add_log : add_log[k].event = name /\ ~add_log[k].raised}

\* C14: add_callback accepts exactly the five event names; a call with any
\* other name raises an error and leaves every event's callback list
\* unchanged.
C14_AddCallbackNames ==
    [][Len(add_log') = Len(add_log) + 1 =>
          LET a == add_log'[Len(add_log')]
          IN /\ a.raised <=> a.event \notin EventNames
             /\ DOMAIN callbacks' = EventNames
             /\ a.raised => callbacks' = callbacks
             /\ ~a.raised =>
                   /\ callbacks'[a.event] =
                         Append(callbacks[a.event], Len(add_log'))
                   /\ \A e \in EventNames \ {a.event} :
                         callbacks'[e] = callbacks[e]]_vars

\* one add_callback call was refused and another one accepted
C14_RefusedAndAccepted ==
    \E i, j \in DOMAIN add_log :
        /\ add_log[i].raised
        /\ add_log[i].event \notin EventNames
        /\ ~add_log[j].raised
        /\ callbacks[add_log[j].event] # <<>>

\* C15: a callback that raises during a dispatch does not abort the engine:
\* the callbacks registered after it for the event are still invoked in that
\* dispatch, and the run goes on to dispatch its remaining events, every
\* phase_end and timer_complete included.
C15_RaisingCallbackContained ==
    /\ (\E i \in DOMAIN invoked : invoked[i].raised) =>
          Len(invoked) = Len(callbacks[events[Len(events)].name])
    /\ (raise_seen /\ pc = "done") =>
          /\ events[Len(events)].name = "timer_complete"
          /\ CountNamed("phase_end") = CountNamed("phase_start")
          /\ CountEvents("phase_start", "WORK") = cfg.cycles[1]

\* the run has returned after its first timer_complete callback raised and
\* the second was invoked all the same
C15_RaisedThenNextInvoked ==
    /\ pc = "done"
    /\ Len(invoked) >= 2
    /\ invoked[1].raised

\* C16: each dispatch of an event invokes all the callbacks registered for
\* it exactly once, in the order in which they were registered.
C16_AllInvokedInOrder ==
    [][DispatchStep =>
          LET name == events'[Len(events')].name
          IN /\ {invoked'[i].id : i \in DOMAIN invoked'} = Registered(name)
             /\ Len(invoked') = Cardinality(Registered(name))
             /\ \A i, j \in DOMAIN invoked' :
                   i < j => invoked'[i].id < invoked'[j].id]_vars

\* a tick was dispatched to two registered callbacks
C16_TwoCallbacksInvoked ==
    /\ events # <<>>
    /\ events[Len(events)].name = "tick"
    /\ Len(invoked) = 2

\* ---------------------------------------------------------- construction
\* C17: constructing a configuration with work_minutes <= 0, rest_minutes
\* <= 0 or a negative pre_rest_warning fails, so that no timer is built
\* from it and no event is ever dispatched.
C17_InvalidConfigRejected ==
    (args.work_minutes <= 0 \/ args.rest_minutes <= 0
        \/ args.pre_rest_warning < 0) =>
        /\ pc \in {"construct", "config_error"}
        /\ cfg = NoConfig
        /\ ~state_set
        /\ events = <<>>

\* a construction with rest_minutes = 0, everything else valid, has failed
C17_ZeroRestRefused ==
    /\ pc = "config_error"
    /\ args.rest_minutes = 0
    /\ args.work_minutes > 0
    /\ args.pre_rest_warning >= 0
    /\ args.alpha = 95
    /\ args.scale = 100

\* a valid configuration was constructed and its run has returned
C17_ValidConfigRan ==
    /\ pc = "done"
    /\ ~ValidateRaises(args)
    /\ events # <<>>

\* ------------------------------------------------------------ sequencing
\* the phase_start and phase_end events dispatched so far, in order
PhaseEvents ==
    LET IsPhaseEvent(e) == e.name \in {"phase_start", "phase_end"}
    IN SelectSeq(events, IsPhaseEvent)

\* C18: as long as no stop() or signal has hit the run, the phase-runs
\* alternate WORK, REST, WORK, ... from WORK of cycle 1, the cycle number
\* growing after each REST, and each phase_start is followed by the
\* phase_end of the same phase and cycle before the next phase_start; the
\* run with work = rest = 0.01 min and cycles = 2 dispatches exactly
\* phase_start(WORK,1), phase_end(WORK,1), phase_start(REST,1),
\* phase_end(REST,1), phase_start(WORK,2), phase_end(WORK,2), timer_complete.
C18_PhaseRunsAlternate ==
    ~stop_done =>
        /\ \A k \in DOMAIN PhaseEvents :
              LET n == (k + 1) \div 2
              IN /\ PhaseEvents[k].name =
                       IF k % 2 = 1 THEN "phase_start" ELSE "phase_end"
                 /\ PhaseEvents[k].phase =
                       IF n % 2 = 1 THEN "WORK" ELSE "REST"
                 /\ PhaseEvents[k].cycle = (n + 1) \div 2
        /\ (pc = "done" /\ cfg = PomodoroConfig(1, 1, <<2>>, 1, 1)) =>
              events =
                 << [name |-> "phase_start", phase |-> "WORK", cycle |-> 1],
                    [name |-> "phase_end", phase |-> "WORK", cycle |-> 1],
                    [name |-> "phase_start", phase |-> "REST", cycle |-> 1],
                    [name |-> "phase_end", phase |-> "REST", cycle |-> 1],
                    [name |-> "phase_start", phase |-> "WORK", cycle |-> 2],
                    [name |-> "phase_end", phase |-> "WORK", cycle |-> 2],
                    [name |-> "timer_complete", phase |-> "WORK", cycle |-> 2] >>

\* the run with work = rest = 0.01 min and cycles = 2 has returned without
\* a stop
C18_ShortRunCompleted ==
    /\ pc = "done"
    /\ ~stop_done
    /\ cfg = PomodoroConfig(1, 1, <<2>>, 1, 1)
    /\ Len(events) = 7

\* ------------------------------------------------------------- stopping
\* C19 (the part a finite run refutes): once stop() or a signal has hit a
\* run of start(), paused or not, the run only unwinds: is_running stays
\* false until start() has returned, so that every loop test that follows
\* leaves its loop and no resume() is needed.
C19_StopStaysInEffect ==
    [][stop_done => ~state'.is_running]_vars

\* PomodoroTimer.is_running
IsRunning == state_set /\ state.is_running

\* C20: the is_running property is false before start() is called and false
\* again once start() has returned, whether the run ended at the cycle limit
\* or by stop().
C20_NotRunningOutsideStart ==
    pc \in {"idle", "done"} => ~IsRunning

\* the timer is left paused for ever
LeftPaused == <>[](state_set /\ state.is_paused)

\* start() has returned after dispatching timer_complete
Returned ==
    /\ pc = "done"
    /\ Len(events) > 0
    /\ events[Len(events)].name = "timer_complete"

ConfiguredMinutes ==
    IF state.phase = "WORK" THEN cfg.work_minutes ELSE cfg.rest_minutes

\* C22 as stated: in every phase-run total_seconds is exactly the configured
\* number of minutes times 60
C22_TotalIsConfiguredDuration ==
    state_set => state.total_seconds * 100 = ConfiguredMinutes * 60

\* C22: from the start of a phase-run to its end total_seconds is the
\* configured number of minutes times 60 with the fraction of a second cut off
C22_TotalIsTruncatedDuration ==
    state_set =>
        /\ pc \in InRunPcs \cup {"phase_start"} =>
              state.phase = phase /\ state.total_seconds = total_seconds
        /\ state.total_seconds * 100 <= ConfiguredMinutes * 60
        /\ ConfiguredMinutes * 60 < (state.total_seconds + 1) * 100

\* a WORK phase-run of 1.2 s is sleeping for 1 s after a control call
C22_TruncatedRunUnderControl ==
    /\ pc = "short_sleep"
    /\ phase = "WORK"
    /\ cfg.work_minutes = 2
    /\ state.total_seconds = 1
    /\ calls > 0

\* C23: every dispatch passes a TimerState that is set, the one of the
\* phase-run the timer thread is in (the last phase-run for timer_complete),
\* and no callback is invoked while no TimerState exists
C23_DispatchPassesCurrentState ==
    /\ \A i \in DOMAIN events : events[i].cycle >= 1
    /\ invoked # <<>> => state_set
    /\ (Len(events) > 0 /\ pc \in InRunPcs \cup {"ret", "complete", "done"}) =>
          LET e == events[Len(events)]
          IN /\ e.phase = state.phase /\ e.cycle = state.cycle
             /\ state.phase = phase /\ state.cycle = cycle

\* a timer_complete callback was invoked with the state of the last
\* phase-run, WORK of cycle 2
C23_CompleteCallbackInvoked ==
    /\ pc = "done"
    /\ invoked # <<>>
    /\ events[Len(events)] = [name |-> "timer_complete", phase |-> "WORK",
                              cycle |-> 2]

\* C24: the step that begins a phase-run installs a TimerState with
\* remaining_seconds = total_seconds, is_running true and is_paused false,
\* whatever the state of the previous phase-run was
C24_PhaseRunBeginsFresh ==
    [][(pc = "begin" /\ pc' = "phase_start") =>
          /\ state'.phase = phase /\ state'.cycle = cycle
          /\ state'.remaining_seconds = state'.total_seconds
          /\ state'.is_running
          /\ ~state'.is_paused
          /\ state'.start_time = now]_vars

\* a phase-run that replaced a paused one is counting down, without any
\* resume() in between
C24_CountsDownAfterPausedRun ==
    /\ pc \in LoopPcs
    /\ ended_paused
    /\ ~start_shifted /\ rpc = "r_idle"
    /\ ~state.is_paused
    /\ state.remaining_seconds < state.total_seconds
    /\ state.remaining_seconds > 0

\* total_seconds of the phase-runs of a phase
TotalOf(ph) ==
    DurationSeconds(IF ph = "WORK" THEN cfg.work_minutes ELSE cfg.rest_minutes)

\* C25: a phase-run with total_seconds <= 2 never enters the polling loop;
\* it sleeps total_seconds from phase_start on, sets remaining_seconds to 0
\* and dispatches phase_end, and neither tick nor pre_rest_warning is
\* dispatched in it
C25_ShortRunSkipsLoop ==
    /\ pc \in LoopPcs \cup {"loop_init", "end_check", "end_fire"} =>
          total_seconds > 2
    /\ pc \in {"short_sleep", "short_end"} => total_seconds <= 2
    /\ pc = "short_end" =>
          /\ state.remaining_seconds = 0
          /\ ~start_shifted =>
                now - state.start_time >= total_seconds * TicksPerSecond
    /\ (pc = "ret" /\ total_seconds <= 2) =>
          events[Len(events)] = [name |-> "phase_end", phase |-> phase,
                                 cycle |-> cycle]
    /\ \A i \in DOMAIN events :
          events[i].name \in {"tick", "pre_rest_warning"} =>
              TotalOf(events[i].phase) > 2

\* a REST phase-run of 2 s has slept and dispatched phase_end
C25_TwoSecondRestEnded ==
    /\ pc = "ret"
    /\ phase = "REST"
    /\ total_seconds = 2
    /\ state.remaining_seconds = 0
    /\ now - state.start_time >= 2 * TicksPerSecond

\* C26: a control operation writes only its own fields of the TimerState:
\* stop() is_running, pause() is_paused, skip_phase() remaining_seconds,
\* resume() start_time and is_paused; none of them touches phase, cycle or
\* total_seconds, nor replaces the TimerState
C26_ControlFrame ==
    [][/\ Stop => state' = [state EXCEPT !.is_running = state'.is_running]
       /\ Pause => state' = [state EXCEPT !.is_paused = state'.is_paused]
       /\ SkipPhase =>
             state' = [state EXCEPT
                         !.remaining_seconds = state'.remaining_seconds]
       /\ (ResumeCheck \/ ResumeRead) => state' = state
       /\ ResumeWrite =>
             state' = [state EXCEPT !.start_time = state'.start_time,
                                    !.is_paused = state'.is_paused]
       /\ (Stop \/ Pause \/ SkipPhase \/ ResumeCheck \/ ResumeRead
              \/ ResumeWrite) =>
             /\ state'.phase = state.phase /\ state'.cycle = state.cycle
             /\ state'.total_seconds = state.total_seconds
             /\ UNCHANGED <<state_set, phase, cycle, total_seconds>>
      ]_vars

\* a polled phase-run hit by stop() and by skip_phase() still has its phase,
\* cycle, total_seconds and start_time
C26_StoppedAndSkipped ==
    /\ pc \in LoopPcs
    /\ stop_in_run /\ skip_in_run
    /\ ~state.is_running /\ state.remaining_seconds = 0
    /\ ~state.is_paused /\ ~start_shifted
    /\ state.phase = phase /\ state.cycle = cycle
    /\ state.total_seconds = TotalOf(phase)
    /\ state.start_time <= now

\* the phase_start events of the run, in order
PhaseStarts == SelectSeq(events, LAMBDA e : e.name = "phase_start")

C28_EndsOnlyAfterStop ==
    /\ (~CyclesTruthy /\ pc \in {"complete", "done"}) =>
          stop_done /\ ~state.is_running
    /\ ~CyclesTruthy =>
          \A i \in DOMAIN events :
              events[i].name = "timer_complete" => stop_done

\* a run without a cycle limit was stopped in its second cycle and has
\* dispatched timer_complete
C28_StoppedInSecondCycle ==
    /\ ~CyclesTruthy
    /\ pc = "done"
    /\ cycle = 2
    /\ stop_done
    /\ events[Len(events)].name = "timer_complete"

\* C29: with a round limit N the legacy overlay begins WORK 1, REST 1, ...,
\* WORK N, REST N in this order and nothing else, stops running exactly when
\* REST of round N ends, and never polls a phase of round N + 1
C29_LegacyRunsTrailingRest ==
    legacy.pc # "new" =>
        LET N == cfg.cycles[1]
            L == legacy.log
        IN /\ \A i \in DOMAIN L :
                 L[i] = [phase |-> IF i % 2 = 1 THEN "WORK" ELSE "REST",
                         round |-> (i + 1) \div 2]
           /\ Len(L) <= 2 * N
           /\ ~legacy.running =>
                 /\ Len(L) = 2 * N
                 /\ legacy.round = N + 1
           /\ legacy.pc \in {"poll", "notice", "switch"} =>
                 legacy.running /\ legacy.round <= N
           /\ legacy.running =>
                 L[Len(L)] = [phase |-> legacy.phase, round |-> legacy.round]

\* with a limit of 2 rounds the legacy timer thread has ended after two WORK
\* and two REST phases, its buttons having been used
C29_TwoRoundsWithRests ==
    /\ legacy.pc = "exit"
    /\ cfg.cycles = <<2>>
    /\ Len(legacy.log) = 4
    /\ calls > 0

\* the notifications sent to the notifier in the REST phase-run of cycle c:
\* by the timer thread (core.py:162-164, each followed by the dispatch of
\* pre_rest_warning) and by _update_display
PreRestNotifications(c) ==
    Cardinality({i \in DOMAIN events :
                    events[i].name = "pre_rest_warning" /\ events[i].cycle = c})
    + Cardinality({i \in DOMAIN ui.notices : ui.notices[i] = c})

\* C30: in the overlay front-end at most one pre-rest notification is sent
\* in a REST phase-run
C30_AtMostOneNotification ==
    ui.pc = "run" => \A c \in 1..MaxCycle : PreRestNotifications(c) <= 1

\* TimerState.progress as the fraction <<numerator, denominator>>:
\* 1.0 when total_seconds <= 0, else
\* min(1.0, max(0.0, (total_seconds - remaining_seconds) / total_seconds))
Progress(s) ==
    IF s.total_seconds <= 0
      THEN <<1, 1>>
      ELSE LET el == s.total_seconds - s.remaining_seconds
           IN IF el <= 0 THEN <<0, s.total_seconds>>
              ELSE IF el >= s.total_seconds
                     THEN <<s.total_seconds, s.total_seconds>>
                     ELSE <<el, s.total_seconds>>

\* C31: progress lies in [0, 1], is (total_seconds - remaining_seconds) /
\* total_seconds when total_seconds > 0 and 1 when total_seconds <= 0
C31_ProgressIsElapsedRatio ==
    state_set =>
        LET p == Progress(state)
        IN /\ 0 <= p[1] /\ p[1] <= p[2]
           /\ state.total_seconds > 0 =>
                 p[1] * state.total_seconds
                   = (state.total_seconds - state.remaining_seconds) * p[2]
           /\ state.total_seconds <= 0 => p = <<1, 1>>

\* C32: when phase_end is dispatched for a polled phase-run without a
\* skip_phase(), at least total_seconds of un-paused time have passed
\* since the phase-run's TimerState was created
C32_NeverEndsEarly ==
    [][EndFire /\ total_seconds > 2 /\ ~skip_in_run
         => unpaused[1] >= total_seconds * TicksPerSecond]_vars

\* C33: between two presses of the pause button, the overlay's own
\* is_paused equals is_paused of the timer's current TimerState
C33_UiFlagIsTimerFlag ==
    (ui.pc = "run" /\ ui.toggle = <<>> /\ state_set)
        => ui.is_paused = state.is_paused

\* C34: pause(), resume(), stop() and skip_phase() called before the first
\* TimerState exists change nothing of the timer, and the first TimerState
\* is created running and not paused whatever was called before
C34_EarlyCallsAreNoOps ==
    [][/\ (~state_set /\ (Pause \/ ResumeCheck \/ Stop \/ SkipPhase))
           => UNCHANGED <<setup, now, pc, state_set, state, phase, cycle,
                          timer_locals, resume_vars, dispatch_log, history,
                          tick_history>>
       /\ (~state_set /\ Begin)
           => /\ state'.is_running /\ ~state'.is_paused
              /\ state'.remaining_seconds = state'.total_seconds]_vars

\* every control call of the run was made before the first TimerState, and
\* start() is about to create it
C34_CalledBeforeFirstState ==
    /\ calls = MaxCalls
    /\ ~state_set
    /\ pc = "begin"

\* C35: a cycle limit of 0 passes validation and is no limit: start()
\* leaves its loop, and dispatches timer_complete, only after stop()
C35_ZeroLimitIsNoLimit ==
    args.cycles = <<0>> =>
        /\ pc # "config_error"
        /\ pc # "construct" => cfg.cycles = <<0>>
        /\ \A c \in 1..(MaxCycle + 1) : ~LimitReached(c)
        /\ pc \in {"complete", "done"} => stop_done
        /\ \A i \in DOMAIN events :
              events[i].name = "timer_complete" => stop_done

\* with a cycle limit of 0 the loop went on into REST of the second cycle
\* without a stop()
C35_SecondRestUnderZeroLimit ==
    /\ cfg.cycles = <<0>>
    /\ pc = "phase_start"
    /\ phase = "REST" /\ cycle = 2
    /\ ~stop_done

\* C39: with pre_rest_warning = 0 no pre_rest_warning event is dispatched
C39_NoWarningAtZero ==
    (pc # "construct" /\ args.pre_rest_warning = 0) =>
        /\ pc # "config_error"
        /\ cfg.pre_rest_warning = 0
        /\ pc # "warn_fire"
        /\ CountNamed("pre_rest_warning") = 0

\* with pre_rest_warning = 0 a polled REST phase-run counted down to 0 and
\* dispatched phase_end, neither skipped nor stopped
C39_RestEndedWithoutWarning ==
    /\ cfg.pre_rest_warning = 0
    /\ pc = "ret" /\ phase = "REST"
    /\ total_seconds > 2
    /\ ~skip_in_run /\ ~stop_in_run
    /\ events[Len(events)].name = "phase_end"

\* C36: pause() only sets is_paused, so a second pause() changes nothing;
\* resume() on a TimerState that is not paused returns at once and changes
\* nothing; resume() on a paused one leaves it not paused
C36_PauseResumeIdempotent ==
    [][/\ (Pause /\ state_set)
           => state' = [state EXCEPT !.is_paused = TRUE]
       /\ (Pause /\ state_set /\ state.is_paused) => state' = state
       /\ (ResumeCheck /\ ~(state_set /\ state.is_paused))
           => /\ state' = state
              /\ rpc' = "r_idle"
              /\ UNCHANGED resume_vars
       /\ ResumeWrite => ~state'.is_paused]_vars

\* two calls of pause() and resume() were made in the polled phase-run and
\* left it paused: pause() twice, or resume() of a state not paused and
\* then pause()
C36_SecondCallOnSameFlag ==
    /\ calls = 2
    /\ pc \in LoopPcs
    /\ rpc = "r_idle"
    /\ state.is_paused /\ pause_held
    /\ ~start_shifted

\* C37: an event dispatched while the current TimerState is paused is
\* phase_end or timer_complete; no tick and no pre_rest_warning is
\* dispatched on a paused TimerState
C37_PausedDispatchesOnlyEnds ==
    [][(DispatchStep /\ state.is_paused)
          => (Dispatched("phase_end") \/ Dispatched("timer_complete"))]_vars

\* C38: when start() leaves its loop at the cycle limit N, timer_complete
\* is dispatched with the TimerState of the last WORK phase-run: WORK,
\* cycle N, remaining_seconds = 0, is_running = true
C38_LimitStateAtComplete ==
    [][(Complete /\ limit_break)
          => /\ state.phase = "WORK"
             /\ state.cycle = cfg.cycles[1]
             /\ state.remaining_seconds = 0
             /\ state.is_running]_vars

\* C38, amended: the TimerState dispatched with timer_complete after the
\* break at the cycle limit N is that of the last WORK phase-run: WORK,
\* cycle N, remaining_seconds = 0; its is_running is true unless stop() or
\* the signal handler has run
C38_LimitStateUnlessStopped ==
    [][(Complete /\ limit_break)
          => /\ state.phase = "WORK"
             /\ state.cycle = cfg.cycles[1]
             /\ state.remaining_seconds = 0
             /\ (state.is_running \/ stop_done)]_vars

\* a run under control calls left its loop at the limit of two cycles and
\* dispatched timer_complete with is_running = true
C38_LimitRunReturned ==
    /\ pc = "done"
    /\ limit_break
    /\ calls > 0
    /\ state.is_running
    /\ state.phase = "WORK" /\ state.cycle = 2
    /\ events[Len(events)].name = "timer_complete"

====
